---------------------------- MODULE Spec2Model ----------------------------
(***************************************************************************)
(* Model of server.py: the ServiceInterface reflection mechanism, the RPC  *)
(* aggregator (registry, dispatch table, property meta-methods), the       *)
(* per-interface bus sets, signal broadcast with one send task per peer,   *)
(* and the websocket connection handler.                                   *)
(*                                                                         *)
(* Python values are represented by strings: "None", "ALARM", and the      *)
(* decimal text of an integer ("1", "5").  A Python dict is a sequence of  *)
(* records in insertion order; a Python set is a set.  An exception is the *)
(* name of its class ("KeyError"); "none" means no exception.              *)
(***************************************************************************)
EXTENDS Integers, Sequences, FiniteSets, TLC

\* ------------------------------------------------------------------ bounds
MaxServices == 2      \* TimeService instances that may be constructed
MaxPeers    == 2      \* websocket connections over the run
MaxRequests == 1      \* requests handled over the run
MaxFire     == 1      \* signal firings over the run
MaxAlarms   == 1      \* call_later timers pending at once, per instance

\* ------------------------------------------------------- program constants
AlarmDelayInit == 1   \* TimeService.__init__: self._alarm_delay = 1

None    == "None"
NoError == "none"
NoAttr  == "<unset>"  \* the attribute is not in the instance __dict__

\* ----------------------------------------------------------------- objects
Self        == "rpc"                                  \* the RPC() of main
TSInstances == {"ts" \o ToString(k) : k \in 1..MaxServices}
Instances   == {Self} \cup TSInstances
\* Interfaces an application hands to register_interface besides those of
\* the module, one instance of each: a ServiceInterface named
\* "ee.arti.TimeService" whose only member is the method time, and one named
\* "jrpc.Property" whose only member is a method named "Get".
ExtraInstances == {"lite", "prop"}
AllInstances   == Instances \cup ExtraInstances
Peers       == 1..MaxPeers        \* websocket objects, in order of creation
NoPeer      == 0
Values      == {"1", "5"}         \* the integers a peer writes to a property
JsonObject  == "{}"               \* the JSON value {}: json.loads gives dict()

ClassOf(i) ==
  CASE i = Self   -> "RPC"
    [] i = "lite" -> "Lite"
    [] i = "prop" -> "Prop"
    [] OTHER      -> "TimeService"

\* self.name as set by the constructors
InterfaceName(i) ==
  CASE ClassOf(i) = "RPC"  -> "jrpc"
    [] ClassOf(i) = "Prop" -> "jrpc.Property"
    [] OTHER               -> "ee.arti.TimeService"

\* ------------------------------------------------- decorators / reflection
\* inspect.getmembers(type(self)) yields the members sorted by member name;
\* each entry: the member name, the tag the decorator left and the RPC name.
ClassMembers(cls) ==
  IF cls = "Lite"
  THEN << [member |-> "time",          tag |-> "method",   name |-> "time"] >>
  ELSE IF cls = "Prop"
  THEN << [member |-> "get",           tag |-> "method",   name |-> "Get"] >>
  ELSE IF cls = "RPC"
  THEN << [member |-> "get_all_props", tag |-> "method",   name |-> "Property.GetAll"],
          [member |-> "get_prop",      tag |-> "method",   name |-> "Property.Get"],
          [member |-> "introspect",    tag |-> "method",   name |-> "Introspectable.Introspect"],
          [member |-> "props_changed", tag |-> "signal",   name |-> "Properties.PropertiesChanged"],
          [member |-> "set_prop",      tag |-> "method",   name |-> "Property.Set"] >>
  ELSE << [member |-> "alarm_clock",   tag |-> "signal",   name |-> "alarm_clock"],
          [member |-> "alarm_delay",   tag |-> "property", name |-> "alarm_delay"],
          [member |-> "set_alarm",     tag |-> "method",   name |-> "set_alarm"],
          [member |-> "time",          tag |-> "method",   name |-> "time"] >>

\* ServiceInterface.__init__: the members carrying one tag, in getmembers order
Tagged(cls, tag) == SelectSeq(ClassMembers(cls), LAMBDA m : m.tag = tag)

_get_methods(i)    == Tagged(ClassOf(i), "method")
_get_signals(i)    == Tagged(ClassOf(i), "signal")
_get_properties(i) == Tagged(ClassOf(i), "property")

\* --------------------------------------------------------------- the state
VARIABLES
  interfaces,   \* RPC.interfaces: dict name -> instance, as <<[name, inst]>>
  method_map,   \* RPC.dispatcher.method_map: key -> [inst, member]
  bus,          \* RPC.bus
  sbus,         \* ServiceInterface.__bus of every instance
  attrs,        \* the instance __dict__ entries the property calls can reach
  conn,         \* where the ws_handler of each websocket stands
  timers,       \* call_later(5, self.alarm_clock) callbacks pending, per instance
  fired,        \* log of the calls of a signal-wrapped member
  tasks,        \* the send tasks created by _handle_signal, in creation order
  nreq,         \* requests handled so far
  last          \* the operation that ran last, with its outcome

vars == <<interfaces, method_map, bus, sbus, attrs, conn, timers, fired, tasks, nreq, last>>

\* Names the property calls are tried with: the declared read/write property
\* and the private attribute behind it, which no class declares as a
\* property.  AttrNames are the instance attributes a call can name: these
\* two and "interfaces", the attribute of the RPC object that holds the
\* registry.
PropNames  == {"alarm_delay", "_alarm_delay"}
AttrNames  == PropNames \cup {"interfaces"}
IfaceNames == {"jrpc", "ee.arti.TimeService", "no.such.Interface"}

Op(op, peer, inst, key, args, err, ret, map) ==
  [op |-> op, peer |-> peer, inst |-> inst, key |-> key, args |-> args,
   err |-> err, ret |-> ret, map |-> map]

\* rpc.interfaces is the dict of RPC.__init__ (or a dict bound to the name
\* later), held in the variable interfaces.  When a value that is no dict
\* was bound to the name, attrs[Self]["interfaces"] holds that value and the
\* variable interfaces is << >>.
RegistryIsDict == attrs[Self]["interfaces"] = NoAttr

\* ------------------------------------------------------------ Python dicts
DictHas(d, k)   == \E n \in DOMAIN d : d[n].name = k
DictIndex(d, k) == CHOOSE n \in DOMAIN d : d[n].name = k
DictGet(d, k)   == d[DictIndex(d, k)].inst
\* d[k] = v: an existing key keeps its place, a new key goes last
DictSet(d, k, v) ==
  IF DictHas(d, k) THEN [d EXCEPT ![DictIndex(d, k)].inst = v]
  ELSE Append(d, [name |-> k, inst |-> v])
DictValues(d) == [n \in DOMAIN d |-> d[n].inst]

\* -------------------------------------------------------- RPC registration
\* (mutant) the key is built from the member name, not from method.name
MethodKey_member_name(i, m) == InterfaceName(i) \o "." \o m.member
MethodKey(i, m) == InterfaceName(i) \o "." \o m.name

RECURSIVE AddMethods(_, _, _)
AddMethods(mm, i, ms) ==
  IF ms = << >> THEN mm
  ELSE LET k == MethodKey(i, Head(ms))
           b == [inst |-> i, member |-> Head(ms).member]
       IN AddMethods([x \in DOMAIN mm \cup {k} |-> IF x = k THEN b ELSE mm[x]],
                     i, Tail(ms))

register_interface(reg, i) ==
  [interfaces |-> DictSet(reg.interfaces, InterfaceName(i), i),
   method_map |-> AddMethods(reg.method_map, i, _get_methods(i))]

EmptyMap == [x \in {} |-> 0]

\* RPC.__init__: empty dispatcher, registry and bus, then register_interface(self)
RPCInit == register_interface([interfaces |-> << >>, method_map |-> EmptyMap], Self)

\* TimeService.__init__ on a fresh instance; the RPC and the extra
\* interfaces exist from the start
Constructed(i) == i \in {Self} \cup ExtraInstances \/ attrs[i]["_alarm_delay"] # NoAttr
TS(k)          == "ts" \o ToString(k)
\* the instance the next TimeService() call creates
NextFresh      ==
  IF \A k \in 1..MaxServices : Constructed(TS(k)) THEN "-"
  ELSE TS(CHOOSE k \in 1..MaxServices :
            ~Constructed(TS(k)) /\ \A j \in 1..(k-1) : Constructed(TS(j)))
FreshDict      == [n \in AttrNames |-> NoAttr]
TimeServiceInit == [FreshDict EXCEPT !["_alarm_delay"] = ToString(AlarmDelayInit)]

Init ==
  /\ interfaces = RPCInit.interfaces
  /\ method_map = RPCInit.method_map
  /\ bus = {}
  /\ sbus = [i \in AllInstances |-> {}]
  /\ attrs = [i \in AllInstances |-> FreshDict]
  /\ conn = [p \in Peers |-> "new"]
  /\ timers = [i \in AllInstances |-> 0]
  /\ fired = << >>
  /\ tasks = << >>
  /\ nreq = 0
  /\ last = Op("init", NoPeer, Self, "", << >>, NoError, None, << >>)

\* rpc.register_interface(i); i is the RPC itself, a TimeService registered
\* before, or the next TimeService() constructed for the call.
\* (mutant) registration hands the interface every peer of RPC.bus
Register_cascading(i) ==
  /\ Constructed(i) \/ i = NextFresh
  /\ LET r == register_interface([interfaces |-> interfaces,
                                  method_map |-> method_map], i)
     IN /\ interfaces' = r.interfaces
        /\ method_map' = r.method_map
  /\ last' = Op("register", NoPeer, i, "", << >>, NoError, None, << >>)
  /\ attrs' = IF Constructed(i) THEN attrs ELSE [attrs EXCEPT ![i] = TimeServiceInit]
  /\ sbus' = [sbus EXCEPT ![i] = @ \cup bus]
  /\ UNCHANGED <<bus, conn, timers, fired, tasks, nreq>>

\* self.interfaces[interface.name] = interface raises TypeError when
\* self.interfaces is no dict, before any method is added.
Register(i) ==
  /\ Constructed(i) \/ i = NextFresh
  /\ IF RegistryIsDict
     THEN LET r == register_interface([interfaces |-> interfaces,
                                       method_map |-> method_map], i)
          IN /\ interfaces' = r.interfaces
             /\ method_map' = r.method_map
             /\ last' = Op("register", NoPeer, i, "", << >>, NoError, None, << >>)
     ELSE /\ UNCHANGED <<interfaces, method_map>>
          /\ last' = Op("register", NoPeer, i, "", << >>, "TypeError", None, << >>)
  /\ attrs' = IF Constructed(i) THEN attrs ELSE [attrs EXCEPT ![i] = TimeServiceInit]
  /\ UNCHANGED <<bus, sbus, conn, timers, fired, tasks, nreq>>

\* ------------------------------------------------------------- bus cascade
\* ServiceInterface._add_bus / _remove_bus on instance i; sb is every
\* instance's __bus.  set.remove raises KeyError when the element is absent.
ServiceInterface_add_bus(sb, i, ws) ==
  [sbus |-> [sb EXCEPT ![i] = @ \cup {ws}], err |-> NoError]

ServiceInterface_remove_bus(sb, i, ws) ==
  IF ws \in sb[i] THEN [sbus |-> [sb EXCEPT ![i] = @ \ {ws}], err |-> NoError]
  ELSE [sbus |-> sb, err |-> "KeyError"]

\* the loop of RPC._add_bus over self.interfaces.values(), from position n
RECURSIVE AddBusLoop(_, _, _, _)
AddBusLoop(vals, n, sb, ws) ==
  IF n > Len(vals) THEN [sbus |-> sb, err |-> NoError]
  ELSE LET r == ServiceInterface_add_bus(sb, vals[n], ws)   \* either branch
       IN IF r.err # NoError THEN r ELSE AddBusLoop(vals, n + 1, r.sbus, ws)

\* the loop of RPC._remove_bus: the branch for the RPC itself calls
\* super()._add_bus(ws); an exception leaves the loop at once
RECURSIVE RemoveBusLoop(_, _, _, _)
RemoveBusLoop(vals, n, sb, ws) ==
  IF n > Len(vals) THEN [sbus |-> sb, err |-> NoError]
  ELSE LET r == IF vals[n] = Self
                THEN ServiceInterface_add_bus(sb, Self, ws)
                ELSE ServiceInterface_remove_bus(sb, vals[n], ws)
       IN IF r.err # NoError THEN r ELSE RemoveBusLoop(vals, n + 1, r.sbus, ws)

\* (mutant) the peer goes into RPC.bus only, no interface is handed it
RPC_add_bus_without_cascade(b, sb, ws) ==
  [bus |-> b \cup {ws}, sbus |-> sb, err |-> NoError]

\* self.bus.add(ws), then the loop; self.interfaces.values() raises
\* AttributeError when self.interfaces is no dict
RPC_add_bus(b, sb, ws) ==
  IF ~RegistryIsDict THEN [bus |-> b \cup {ws}, sbus |-> sb, err |-> "AttributeError"]
  ELSE LET r == AddBusLoop(DictValues(interfaces), 1, sb, ws)
       IN [bus |-> b \cup {ws}, sbus |-> r.sbus, err |-> r.err]

RPC_remove_bus(b, sb, ws) ==
  IF ws \notin b THEN [bus |-> b, sbus |-> sb, err |-> "KeyError"]
  ELSE IF ~RegistryIsDict
  THEN [bus |-> b \ {ws}, sbus |-> sb, err |-> "AttributeError"]
  ELSE LET r == RemoveBusLoop(DictValues(interfaces), 1, sb, ws)
       IN [bus |-> b \ {ws}, sbus |-> r.sbus, err |-> r.err]

\* ---------------------------------------------------------------- ws_handler
\* conn[ws]: "new" (not yet accepted), "open" (in the receive loop),
\* "closed" (the handler returned), "crashed" (the handler raised)

\* ws_handler up to the receive loop: rpc._add_bus(websocket)
Connect(ws) ==
  /\ conn[ws] = "new"
  /\ \A q \in Peers : q < ws => conn[q] # "new"
  /\ LET r == RPC_add_bus(bus, sbus, ws)
     IN /\ bus' = r.bus
        /\ sbus' = r.sbus
        /\ conn' = [conn EXCEPT ![ws] = IF r.err = NoError THEN "open" ELSE "crashed"]
        /\ last' = Op("connect", ws, Self, "", << >>, r.err, None, << >>)
  /\ UNCHANGED <<interfaces, method_map, attrs, timers, fired, tasks, nreq>>

\* the receive loop ends (the peer went away): rpc._remove_bus(websocket)
Disconnect(ws) ==
  /\ conn[ws] = "open"
  /\ LET r == RPC_remove_bus(bus, sbus, ws)
     IN /\ bus' = r.bus
        /\ sbus' = r.sbus
        /\ conn' = [conn EXCEPT ![ws] = IF r.err = NoError THEN "closed" ELSE "crashed"]
        /\ last' = Op("disconnect", ws, Self, "", << >>, r.err, None, << >>)
  /\ UNCHANGED <<interfaces, method_map, attrs, timers, fired, tasks, nreq>>

\* ------------------------------------------------------ Python attributes
\* An attribute name handed to getattr/setattr: a str, or (as get_all_props
\* does) the _Property object itself.
StrKey(n)      == [kind |-> "str", s |-> n]
PropertyKey(m) == [kind |-> "_Property", s |-> m.member]

IsProperty(i, n) ==
  \E k \in DOMAIN _get_properties(i) : _get_properties(i)[k].member = n

\* @alarm_delay.setter gives the property an fset
HasSetter(i, n) == IsProperty(i, n) /\ n = "alarm_delay"

\* TimeService.alarm_delay getter and setter (the only property of the source)
alarm_delay_fget(a, i) ==
  IF a[i]["_alarm_delay"] = NoAttr THEN [err |-> "AttributeError", val |-> None]
  ELSE [err |-> NoError, val |-> a[i]["_alarm_delay"]]

\* (mutant) the setter stores the value under the property's own name
alarm_delay_fset_wrong_attr(a, i, v) == [a EXCEPT ![i]["alarm_delay"] = v]
alarm_delay_fset(a, i, v) == [a EXCEPT ![i]["_alarm_delay"] = v]

\* getattr(i, key): a property of the class goes through its getter, any other
\* name is looked up in the instance __dict__
getattr(a, i, key) ==
  IF key.kind # "str" THEN [err |-> "TypeError", val |-> None]
  ELSE IF IsProperty(i, key.s) THEN alarm_delay_fget(a, i)
  ELSE IF i = Self /\ key.s = "interfaces" /\ a[Self]["interfaces"] = NoAttr
       THEN [err |-> NoError, val |-> "<dict>"]
  ELSE IF key.s \in DOMAIN a[i] /\ a[i][key.s] # NoAttr
       THEN [err |-> NoError, val |-> a[i][key.s]]
  ELSE [err |-> "AttributeError", val |-> None]

\* setattr(i, key, v): a property of the class goes through its setter, any
\* other name is stored in the instance __dict__.  On the RPC object the
\* name "interfaces" is the registry: the value takes the dict's place, the
\* JSON object {} as an empty dict.
setattr(a, i, key, v) ==
  IF key.kind # "str" THEN [err |-> "TypeError", attrs |-> a, interfaces |-> interfaces]
  ELSE IF IsProperty(i, key.s)
       THEN IF HasSetter(i, key.s)
            THEN [err |-> NoError, attrs |-> alarm_delay_fset(a, i, v),
                  interfaces |-> interfaces]
            ELSE [err |-> "AttributeError", attrs |-> a, interfaces |-> interfaces]
  ELSE IF i = Self /\ key.s = "interfaces"
       THEN [err |-> NoError, interfaces |-> << >>,
             attrs |-> [a EXCEPT ![i][key.s] = IF v = JsonObject THEN NoAttr ELSE v]]
  ELSE [err |-> NoError, attrs |-> [a EXCEPT ![i][key.s] = v], interfaces |-> interfaces]

\* ------------------------------------------------------ RPC meta-methods
\* The outcome of a method call: the exception raised or the value returned
\* (ret for a scalar, map for a dict), and the state it leaves.
Outcome(err, ret, map, a, t) ==
  [err |-> err, ret |-> ret, map |-> map, attrs |-> a, timers |-> t,
   interfaces |-> interfaces]

\* self.interfaces[interface_name] when self.interfaces is no dict
NotSubscriptable == Outcome("TypeError", None, << >>, attrs, timers)

RPC_get_prop(interface_name, property_name) ==
  IF ~RegistryIsDict THEN NotSubscriptable
  ELSE IF ~DictHas(interfaces, interface_name)
  THEN Outcome("KeyError", None, << >>, attrs, timers)
  ELSE LET g == getattr(attrs, DictGet(interfaces, interface_name), StrKey(property_name))
       IN Outcome(g.err, g.val, << >>, attrs, timers)

RPC_set_prop(interface_name, property_name, value) ==
  IF ~RegistryIsDict THEN NotSubscriptable
  ELSE IF ~DictHas(interfaces, interface_name)
  THEN Outcome("KeyError", None, << >>, attrs, timers)
  ELSE LET r == setattr(attrs, DictGet(interfaces, interface_name), StrKey(property_name), value)
       IN [Outcome(r.err, None, << >>, r.attrs, timers) EXCEPT !.interfaces = r.interfaces]

\* for key in interface._get_properties(): all_props[key] = getattr(interface, key)
RECURSIVE GetAllLoop(_, _, _)
GetAllLoop(i, props, all_props) ==
  IF props = << >> THEN Outcome(NoError, None, all_props, attrs, timers)
  ELSE LET key == PropertyKey(Head(props))
           g   == getattr(attrs, i, key)
       IN IF g.err # NoError THEN Outcome(g.err, None, << >>, attrs, timers)
          ELSE GetAllLoop(i, Tail(props), Append(all_props, [key |-> key, val |-> g.val]))

RPC_get_all_props(interface_name) ==
  IF ~RegistryIsDict THEN NotSubscriptable
  ELSE IF ~DictHas(interfaces, interface_name)
  THEN Outcome("KeyError", None, << >>, attrs, timers)
  ELSE LET i == DictGet(interfaces, interface_name)
       IN GetAllLoop(i, _get_properties(i), << >>)

\* data["interfaces"][name] = {"methods": {}, "signals": {}, "properties": {}};
\* self.interfaces.items() raises AttributeError when self.interfaces is no dict
RPC_introspect ==
  IF ~RegistryIsDict THEN Outcome("AttributeError", None, << >>, attrs, timers)
  ELSE
  Outcome(NoError, None,
          [n \in DOMAIN interfaces |->
             [name |-> interfaces[n].name, methods |-> << >>,
              signals |-> << >>, properties |-> << >>]],
          attrs, timers)

\* TimeService.time: datetime.utcnow().isoformat() + 'Z'
UtcNowIso == "<utcnow>"
TimeService_time(i) == Outcome(NoError, UtcNowIso \o "Z", << >>, attrs, timers)

\* TimeService.set_alarm: call_later(5, self.alarm_clock), returns None
TimeService_set_alarm(i) ==
  Outcome(NoError, None, << >>, attrs, [timers EXCEPT ![i] = @ + 1])

\* bound_method(*args) for the entry [inst, member] of the dispatch table
Invoke(b, args) ==
  CASE b.member = "get_prop"      -> RPC_get_prop(args[1], args[2])
    [] b.member = "set_prop"      -> RPC_set_prop(args[1], args[2], args[3])
    [] b.member = "get_all_props" -> RPC_get_all_props(args[1])
    [] b.member = "introspect"    -> RPC_introspect
    [] b.member = "time"          -> TimeService_time(b.inst)
    [] b.member = "get"           -> Outcome(NoError, None, << >>, attrs, timers)
    [] b.member = "set_alarm"     -> TimeService_set_alarm(b.inst)

\* ------------------------------------------------------------- dispatch
\* Requests the peers send: every key any registration can bind, one key
\* nothing binds, each with params of the shape the method takes.
UnknownKey == "X.y"
AllKeys ==
  UNION {{MethodKey(i, _get_methods(i)[k]) : k \in DOMAIN _get_methods(i)} : i \in Instances}
    \cup {UnknownKey}

Arity(member) ==
  CASE member = "get_prop"      -> 2
    [] member = "get"           -> 2
    [] member = "set_prop"      -> 3
    [] member = "get_all_props" -> 1
    [] OTHER                    -> 0

ArgsOfArity(n) ==
  CASE n = 0 -> { << >> }
    [] n = 1 -> { <<x>> : x \in IfaceNames }
    [] n = 2 -> { <<x, y>> : x \in IfaceNames, y \in PropNames }
    [] n = 3 -> { <<x, y, v>> : x \in IfaceNames, y \in PropNames, v \in Values }

\* params of Property.Set that name any attribute and carry any JSON value
SetArgs ==
  { <<x, y, v>> : x \in IfaceNames, y \in AttrNames, v \in Values \cup {JsonObject} }

\* ws_handler, one turn of the receive loop:
\* JSONRPCResponseManager.handle(req, rpc.dispatcher); a key the dispatcher
\* does not hold is answered with the Method-not-found error.
OnMessage(ws, key, args) ==
  /\ conn[ws] = "open"
  /\ nreq < MaxRequests
  /\ nreq' = nreq + 1
  /\ IF key \notin DOMAIN method_map
     THEN /\ args = << >>
          /\ last' = Op("call", NoPeer, Self, key, args, "MethodNotFound", None, << >>)
          /\ UNCHANGED <<interfaces, attrs, timers>>
     ELSE /\ Len(args) = Arity(method_map[key].member)
          /\ method_map[key].member = "set_alarm"
               => timers[method_map[key].inst] < MaxAlarms
          /\ LET r == Invoke(method_map[key], args)
             IN /\ interfaces' = r.interfaces
                /\ attrs' = r.attrs
                /\ timers' = r.timers
                /\ last' = Op("call", NoPeer, method_map[key].inst, key, args,
                              r.err, r.ret, r.map)
  /\ UNCHANGED <<method_map, bus, sbus, conn, fired, tasks>>

\* ------------------------------------------------------------- signals
\* The text _handle_signal sends, as a peer reads it: the method and the
\* params are those of the literal, whatever signal fired.
SentMessage == [method |-> "a.signal.bla", params |-> <<"hello">>]

\* The body of a signal-tagged member: alarm_clock returns "ALARM",
\* props_changed returns None.
SignalBody(member) == IF member = "alarm_clock" THEN "ALARM" ELSE None

\* `for bus in self.__bus`, taken in order of connection
RECURSIVE BusOrder(_)
BusOrder(S) ==
  IF S = {} THEN << >>
  ELSE LET ws == CHOOSE x \in S : \A y \in S : x <= y
       IN <<ws>> \o BusOrder(S \ {ws})

\* (mutant) the loop runs over the aggregator's RPC.bus, not over self.__bus
ServiceInterface_handle_signal_rpc_bus(ts, i, result, f) ==
  LET order == BusOrder(bus)
  IN ts \o [k \in DOMAIN order |->
             [fire |-> f, inst |-> i, peer |-> order[k],
              msg |-> SentMessage, st |-> "pending"]]

\* ServiceInterface._handle_signal: one send task per element of self.__bus,
\* each with resolve_task as its done callback; f numbers the firing
ServiceInterface_handle_signal(ts, i, result, f) ==
  LET order == BusOrder(sbus[i])
  IN ts \o [k \in DOMAIN order |->
             [fire |-> f, inst |-> i, peer |-> order[k],
              msg |-> SentMessage, st |-> "pending"]]

\* (mutant) the wrapper returns what _handle_signal returns
wrapped_returns_handle_signal(i, member) ==
  [tasks |-> ServiceInterface_handle_signal(tasks, i, SignalBody(member), Len(fired) + 1),
   ret   |-> None]

\* the wrapper the signal decorator puts around the member:
\* result = fn(self); _handle_signal(self, signal, result); return result
wrapped(i, member) ==
  LET result == SignalBody(member)
  IN [tasks |-> ServiceInterface_handle_signal(tasks, i, result, Len(fired) + 1),
      ret   |-> result]

SignalName(i, member) ==
  LET sigs == _get_signals(i)
  IN sigs[CHOOSE k \in DOMAIN sigs : sigs[k].member = member].name

\* A call of the signal-wrapped member of instance i.  fired logs it: the
\* instance, the signal, self.__bus as the loop found it, the value returned.
FireSignal(i, member, args) ==
  /\ Len(fired) < MaxFire
  /\ LET w == wrapped(i, member)
     IN /\ tasks' = w.tasks
        /\ fired' = Append(fired, [inst |-> i, signal |-> SignalName(i, member),
                                   at |-> sbus[i], body |-> SignalBody(member),
                                   ret |-> w.ret])
        /\ last' = Op("fire", NoPeer, i, member, args, NoError, w.ret, << >>)

\* the timer of set_alarm runs out: the event loop calls self.alarm_clock()
AlarmFires(i) ==
  /\ timers[i] > 0
  /\ timers' = [timers EXCEPT ![i] = @ - 1]
  /\ FireSignal(i, "alarm_clock", << >>)
  /\ UNCHANGED <<interfaces, method_map, bus, sbus, attrs, conn, nreq>>

\* rpc.props_changed(interface_name), called by the code of an interface
PropsChanged(interface_name) ==
  /\ DictHas(interfaces, interface_name)
  /\ FireSignal(Self, "props_changed", <<interface_name>>)
  /\ UNCHANGED <<interfaces, method_map, bus, sbus, attrs, conn, timers, nreq>>

\* what last holds after a step of a send task: the tasks log has the outcome
TaskStep == Op("task", NoPeer, Self, "", << >>, NoError, None, << >>)

\* Task k, bus.send(...), ends without an exception; resolve_task finds
\* task.exception() None and does nothing.  A websocket whose handler has
\* ended is closed, and a send on it raises.
SendOk(k) ==
  /\ tasks[k].st = "pending"
  /\ conn[tasks[k].peer] = "open"
  /\ tasks' = [tasks EXCEPT ![k].st = "sent"]
  /\ last' = TaskStep
  /\ UNCHANGED <<interfaces, method_map, bus, sbus, attrs, conn, timers, fired, nreq>>

\* Task k ends with an exception (the peer is gone, the transport failed)
SendFail(k) ==
  /\ tasks[k].st = "pending"
  /\ tasks' = [tasks EXCEPT ![k].st = "failed"]
  /\ last' = TaskStep
  /\ UNCHANGED <<interfaces, method_map, bus, sbus, attrs, conn, timers, fired, nreq>>

\* resolve_task(bus, task) of a failed task: self.__bus.remove(bus).  What it
\* raises goes to the event loop's exception handler.
\* (mutant) the callback leaves the bus set alone
resolve_task_keeps_peer(sb, i, ws) == [sbus |-> sb, err |-> NoError]
resolve_task(sb, i, ws) == ServiceInterface_remove_bus(sb, i, ws)

ResolveTask(k) ==
  /\ tasks[k].st = "failed"
  /\ LET r == resolve_task(sbus, tasks[k].inst, tasks[k].peer)
     IN /\ sbus' = r.sbus
        /\ tasks' = [tasks EXCEPT ![k].st = IF r.err = NoError THEN "evicted" ELSE r.err]
        /\ last' = TaskStep
  /\ UNCHANGED <<interfaces, method_map, bus, attrs, conn, timers, fired, nreq>>

AllArgs == UNION {ArgsOfArity(n) : n \in 0..3}
TaskIds == 1..(MaxFire * MaxPeers)

Next ==
  \/ \E i \in AllInstances : Register(i)
  \/ \E ws \in Peers : Connect(ws)
  \/ \E ws \in Peers : Disconnect(ws)
  \/ \E ws \in Peers, key \in AllKeys, args \in AllArgs \cup SetArgs :
        OnMessage(ws, key, args)
  \/ \E i \in Instances : AlarmFires(i)
  \/ \E n \in IfaceNames : PropsChanged(n)
  \/ \E k \in TaskIds : k \in DOMAIN tasks /\ SendOk(k)
  \/ \E k \in TaskIds : k \in DOMAIN tasks /\ SendFail(k)
  \/ \E k \in TaskIds : k \in DOMAIN tasks /\ ResolveTask(k)

Spec == Init /\ [][Next]_vars

\* Registration, connections and requests: the registry, the dispatch table
\* and the property calls.  Disconnect and the signal path write only bus
\* sets, connection states and the task log, which no request reads.
NextCall ==
  \/ \E i \in Instances : Register(i)
  \/ \E ws \in Peers : Connect(ws)
  \/ \E ws \in Peers, key \in AllKeys, args \in AllArgs : OnMessage(ws, key, args)

SpecCall == Init /\ [][NextCall]_vars

\* Registration, connections and requests whose Property.Set may name any
\* attribute of the interface object, the registry of the RPC among them.
AttrArgs == AllArgs \cup SetArgs

NextAttr ==
  \/ \E i \in Instances : Register(i)
  \/ \E ws \in Peers : Connect(ws)
  \/ \E ws \in Peers : Disconnect(ws)
  \/ \E ws \in Peers, key \in AllKeys, args \in AttrArgs : OnMessage(ws, key, args)

SpecAttr == Init /\ [][NextAttr]_vars

\* Registration of any interface, those of the module and the extra ones,
\* with connections and requests.
NextReg ==
  \/ \E i \in AllInstances : Register(i)
  \/ \E ws \in Peers : Connect(ws)
  \/ \E ws \in Peers, key \in AllKeys, args \in AllArgs : OnMessage(ws, key, args)

SpecReg == Init /\ [][NextReg]_vars

\* Registration, connections and signals: the bus sets and the send tasks.
\* Of the requests only set_alarm reaches them, through its timer.
SetAlarmKey == "ee.arti.TimeService.set_alarm"

NextBus ==
  \/ \E i \in Instances : Register(i)
  \/ \E ws \in Peers : Connect(ws)
  \/ \E ws \in Peers : Disconnect(ws)
  \/ \E ws \in Peers : OnMessage(ws, SetAlarmKey, << >>)
  \/ \E i \in Instances : AlarmFires(i)
  \/ \E n \in IfaceNames : PropsChanged(n)
  \/ \E k \in TaskIds : k \in DOMAIN tasks /\ SendOk(k)
  \/ \E k \in TaskIds : k \in DOMAIN tasks /\ SendFail(k)
  \/ \E k \in TaskIds : k \in DOMAIN tasks /\ ResolveTask(k)

SpecBus == Init /\ [][NextBus]_vars

\* ======================================================================
\* Claims
\* ======================================================================
\* C1: after OnConnect(p) immediately followed by OnDisconnect(p), p is in
\* none of the bus sets: not RPC.bus, not the aggregator interface's
\* subscriber set, not that of any other registered interface.
C1_ConnectThenDisconnectLeavesNoBus ==
  [][(last.op = "connect" /\ last'.op = "disconnect" /\ last'.peer = last.peer)
       => /\ last.peer \notin bus'
          /\ \A i \in Instances : last.peer \notin sbus'[i]]_vars

\* the tasks one firing created for one peer
Attempts(f, ws) == {k \in DOMAIN tasks : tasks[k].fire = f /\ tasks[k].peer = ws}

\* C2: one firing of a signal of interface I creates exactly one delivery
\* attempt for each peer that was in I's subscriber set at the moment of
\* firing and none for any other peer, whatever connects, disconnects or is
\* evicted before the deliveries complete.
C2_OneAttemptPerSubscriber ==
  /\ \A k \in DOMAIN tasks :
        tasks[k].fire \in DOMAIN fired /\ tasks[k].inst = fired[tasks[k].fire].inst
  /\ \A f \in DOMAIN fired : \A ws \in Peers :
        Cardinality(Attempts(f, ws)) = IF ws \in fired[f].at THEN 1 ELSE 0

\* a firing to two subscribers, one delivery still pending while its peer
\* has already gone through OnDisconnect and the other peer was evicted
C2_Witness ==
  \E f \in DOMAIN fired :
    /\ Cardinality(fired[f].at) = 2
    /\ \E k \in DOMAIN tasks, j \in DOMAIN tasks :
         /\ tasks[k].fire = f /\ tasks[j].fire = f
         /\ tasks[k].st = "pending" /\ conn[tasks[k].peer] # "open"
         /\ tasks[j].st = "evicted"

\* C3: a failed send of a broadcast on interface I touches no other delivery
\* of the broadcast (they stay pending or delivered as they were), and once
\* resolve_task has run for the failed one its peer is not in I's
\* subscriber set.
C3_FailureIsolated ==
  [][\A k \in DOMAIN tasks :
       /\ (tasks[k].st = "pending" /\ tasks'[k].st = "failed")
            => /\ \A j \in DOMAIN tasks \ {k} : tasks'[j] = tasks[j]
               /\ DOMAIN tasks' = DOMAIN tasks
       /\ (tasks[k].st = "failed" /\ tasks'[k].st # "failed")
            => /\ \A j \in DOMAIN tasks \ {k} : tasks'[j] = tasks[j]
               /\ DOMAIN tasks' = DOMAIN tasks
               /\ tasks[k].peer \notin sbus'[tasks[k].inst]]_vars

\* a broadcast to two subscribers: one send failed and its peer was evicted,
\* the other peer got the notification
C3_Witness ==
  \E k \in DOMAIN tasks, j \in DOMAIN tasks :
    /\ tasks[k].fire = tasks[j].fire
    /\ Cardinality(fired[tasks[k].fire].at) = 2
    /\ tasks[k].st = "evicted" /\ tasks[k].peer \notin sbus[tasks[k].inst]
    /\ tasks[j].st = "sent"

\* C4: the call that fires a signal returns the value of the handler body
\* and raises nothing, and no later outcome of a delivery (a failed send, an
\* exception in resolve_task) changes what it returned.
C4_FireReturnsHandlerResult ==
  /\ \A f \in DOMAIN fired :
        fired[f].ret = fired[f].body
  /\ last.op = "fire" => (last.err = NoError /\ last.ret = fired[Len(fired)].body)

\* alarm_clock returned "ALARM" and a delivery of that firing has failed
C4_Witness ==
  \E k \in DOMAIN tasks :
    /\ tasks[k].st \in {"failed", "evicted", "KeyError"}
    /\ fired[tasks[k].fire].signal = "alarm_clock"
    /\ fired[tasks[k].fire].ret = "ALARM"

\* the notification the claim describes
Notification(i, signal, result) ==
  [method |-> InterfaceName(i) \o "." \o signal, params |-> <<result>>]

\* C5: the notification delivered for a firing of signal S of interface I
\* has "<I.name>.<S.name>" as its method and the handler's result as its
\* params.
C5_NotificationCarriesNameAndResult ==
  \A k \in DOMAIN tasks :
    tasks[k].msg = Notification(tasks[k].inst, fired[tasks[k].fire].signal,
                                fired[tasks[k].fire].body)

\* The error names of the claims, as the code raises them: the registry
\* lookup self.interfaces[name] raises KeyError, getattr and setattr raise
\* AttributeError.
InterfaceNotFound == "KeyError"
PropertyNotFound  == "AttributeError"

GetKey    == "jrpc.Property.Get"
SetKey    == "jrpc.Property.Set"
GetAllKey == "jrpc.Property.GetAll"

\* a request leaves everything but the request counter and last as it was
RequestChangedNothing ==
  UNCHANGED <<interfaces, method_map, bus, sbus, attrs, conn, timers, fired, tasks>>

\* C6: Property.Set(i, p, v) fails with InterfaceNotFound when i is not
\* registered and with PropertyNotFound when p is not a declared property
\* of i or has no setter, changing no state in either case; otherwise it
\* invokes the setter of p and returns null.
C6_SetFailsCleanly ==
  [][(nreq' # nreq /\ last'.key = SetKey) =>
       LET i == last'.args[1]
           p == last'.args[2]
           v == last'.args[3]
       IN IF ~DictHas(interfaces, i)
          THEN last'.err = InterfaceNotFound /\ RequestChangedNothing
          ELSE IF ~HasSetter(DictGet(interfaces, i), p)
          THEN last'.err = PropertyNotFound /\ RequestChangedNothing
          ELSE /\ last'.err = NoError /\ last'.ret = None
               /\ attrs' = alarm_delay_fset(attrs, DictGet(interfaces, i), v)]_vars

\* C7: Property.Get(i, p) returns the getter's value of the declared
\* property p of i, fails with InterfaceNotFound when i is not registered
\* and with PropertyNotFound when p is not a declared property of i.
C7_GetOnlyDeclared ==
  (last.op = "call" /\ last.key = GetKey) =>
    LET i == last.args[1]
        p == last.args[2]
    IN IF ~DictHas(interfaces, i) THEN last.err = InterfaceNotFound
       ELSE IF ~IsProperty(DictGet(interfaces, i), p) THEN last.err = PropertyNotFound
       ELSE /\ last.err = NoError
            /\ last.ret = alarm_delay_fget(attrs, DictGet(interfaces, i)).val

\* C8: in the state a successful Property.Set(i, p, v) on a read/write
\* property leaves, Property.Get(i, p) returns v.
C8_SetThenGetRoundTrip ==
  (/\ last.op = "call" /\ last.key = SetKey /\ last.err = NoError
   /\ DictHas(interfaces, last.args[1])
   /\ HasSetter(DictGet(interfaces, last.args[1]), last.args[2]))
  => /\ RPC_get_prop(last.args[1], last.args[2]).err = NoError
     /\ RPC_get_prop(last.args[1], last.args[2]).ret = last.args[3]

\* alarm_delay of ee.arti.TimeService, 1 at construction, was set to 5 and
\* reads back 5
C8_Witness ==
  /\ last.op = "call" /\ last.key = SetKey /\ last.err = NoError
  /\ last.args = <<"ee.arti.TimeService", "alarm_delay", "5">>
  /\ RPC_get_prop("ee.arti.TimeService", "alarm_delay").ret = "5"

\* C9: Property.GetAll(i) of a registered interface succeeds with a mapping
\* whose keys are the property names declared on i, in descriptor order,
\* each mapped to what Property.Get(i, key) returns; it fails with
\* InterfaceNotFound only when i is not registered.
C9_GetAllListsProperties ==
  (last.op = "call" /\ last.key = GetAllKey) =>
    LET i == last.args[1]
    IN IF ~DictHas(interfaces, i) THEN last.err = InterfaceNotFound
       ELSE LET props == _get_properties(DictGet(interfaces, i))
            IN /\ last.err = NoError
               /\ DOMAIN last.map = DOMAIN props
               /\ \A k \in DOMAIN props :
                    /\ last.map[k].key = StrKey(props[k].name)
                    /\ last.map[k].val = RPC_get_prop(i, props[k].name).ret

\* the keys the claim lists for the members tagged as methods
MethodKeysOf(i) ==
  IF ClassOf(i) = "RPC"
  THEN {"jrpc.Property.Get", "jrpc.Property.Set", "jrpc.Property.GetAll",
        "jrpc.Introspectable.Introspect"}
  ELSE {"ee.arti.TimeService.time", "ee.arti.TimeService.set_alarm"}

IntrospectKey == "jrpc.Introspectable.Introspect"

\* the RPC names of a capability list, in descriptor order
NamesOf(ms) == [k \in DOMAIN ms |-> ms[k].name]

\* C11: Introspect() returns one entry per interface of the registry, each
\* listing the names of all the interface's methods, signals and properties;
\* an interface that has members gets no empty placeholder.
C11_IntrospectListsMembers ==
  (last.op = "call" /\ last.key = IntrospectKey) =>
    /\ last.err = NoError
    /\ DOMAIN last.map = DOMAIN interfaces
    /\ \A n \in DOMAIN interfaces :
         LET i == interfaces[n].inst
         IN /\ last.map[n].name = interfaces[n].name
            /\ last.map[n].methods = NamesOf(_get_methods(i))
            /\ last.map[n].signals = NamesOf(_get_signals(i))
            /\ last.map[n].properties = NamesOf(_get_properties(i))

\* the instances the registry holds
Registered == {interfaces[n].inst : n \in DOMAIN interfaces}

\* C12: after OnConnect(p), p is in RPC.bus and in the subscriber set of
\* every interface registered at that time, the aggregator's own included
\* (each a set, so p is held once); _add_bus of a peer already added changes
\* nothing.
C12_ConnectAddsEverywhere ==
  /\ last.op = "connect" =>
        /\ last.err = NoError
        /\ last.peer \in bus
        /\ \A i \in Registered : last.peer \in sbus[i]
  /\ \A ws \in Peers :
        LET r == RPC_add_bus(bus, sbus, ws)
        IN RPC_add_bus(r.bus, r.sbus, ws) = r

\* the second peer has just connected while TimeService is registered and
\* the first peer is still subscribed
C12_Witness ==
  /\ last.op = "connect" /\ last.peer = 2
  /\ DictHas(interfaces, "ee.arti.TimeService")
  /\ {1, 2} \subseteq sbus[DictGet(interfaces, "ee.arti.TimeService")]
  /\ {1, 2} \subseteq sbus[Self]
  /\ {1, 2} \subseteq bus

\* what the name rpc.interfaces is bound to
RegistryValue == <<interfaces, attrs[Self]["interfaces"]>>

\* C13: after startup registration no OnConnect, OnMessage (any dispatched
\* call with any arguments), OnDisconnect, signal firing or send outcome
\* changes the name-to-interface registry or the dispatch table.
C13_RegistryFrame ==
  [][last'.op \in {"connect", "call", "disconnect", "fire", "task"}
       => UNCHANGED <<RegistryValue, method_map>>]_vars

\* p's ws_handler is in its receive loop
Connected(p) == conn[p] = "open"

\* a send to p created by a signal of instance i has raised
FailedSendOn(p, i) ==
  \E k \in DOMAIN tasks :
    /\ tasks[k].inst = i /\ tasks[k].peer = p
    /\ tasks[k].st \in {"failed", "evicted", "KeyError"}

\* the instances whose subscriber set a connected peer was added to: it is
\* still there, or a send task of the instance was created for it
CascadedInto(p) ==
  {i \in Instances : p \in sbus[i]
                       \/ \E k \in DOMAIN tasks : tasks[k].inst = i /\ tasks[k].peer = p}

\* C14: a peer is in RPC.bus if and only if it is connected and has not
\* failed a send on every interface whose subscriber set it was cascaded
\* into.
C14_BusIffConnectedAndSendable ==
  \A p \in Peers :
    p \in bus <=> (Connected(p) /\ ~(\A i \in CascadedInto(p) : FailedSendOn(p, i)))

\* what the code keeps: RPC.bus holds exactly the connected peers
BusIsConnected == \A p \in Peers : p \in bus <=> Connected(p)

\* C15: RegisterInterface changes no bus set, neither RPC.bus nor the
\* subscriber set of any interface; an interface constructed and registered
\* while peers are connected has an empty subscriber set, and a peer enters
\* the subscriber set of an interface only by the cascade of its own
\* OnConnect, so its signals reach none of the earlier peers.
C15_RegisterLeavesBusSets ==
  [][/\ last'.op = "register" =>
          /\ bus' = bus /\ sbus' = sbus
          /\ ~Constructed(last'.inst) => sbus'[last'.inst] = {}
     /\ \A i \in TSInstances, p \in Peers :
          (p \notin sbus[i] /\ p \in sbus'[i]) => (last'.op = "connect" /\ last'.peer = p)
    ]_vars

\* TimeService was registered after peer 1 connected; its alarm_clock fired
\* with peer 1 still connected and no send task was created
C15_Witness ==
  /\ last.op = "fire" /\ last.inst = "ts1" /\ Connected(1)
  /\ DictHas(interfaces, "ee.arti.TimeService")
  /\ 1 \in bus /\ sbus["ts1"] = {} /\ tasks = << >>

\* C16: OnDisconnect(p) of a connected peer, rpc._remove_bus(p), raises
\* nothing, also when p was evicted from an interface's subscriber set by a
\* failed send or an interface was registered after p connected.
C16_DisconnectNeverRaises ==
  last.op = "disconnect" => last.err = NoError

\* C17: resolve_task of a failed delivery to p on interface I raises nothing
\* when p is no longer in I's subscriber set (removed by another failed
\* delivery of I or by p's disconnect): no done callback ends in an
\* exception.
C17_EvictionNeverRaises ==
  \A k \in DOMAIN tasks : tasks[k].st \in {"pending", "sent", "failed", "evicted"}

\* p's ws_handler has returned from rpc._remove_bus(p)
DisconnectCompleted(p) == conn[p] = "closed"

\* C18: no subscriber set, the aggregator interface's included, holds a
\* peer whose OnDisconnect has completed; so a signal fired after that, on
\* any interface, creates no delivery attempt to the peer.
C18_NoSubscriberAfterDisconnect ==
  /\ \A i \in Instances : \A p \in sbus[i] : ~DisconnectCompleted(p)
  /\ last.op = "fire" => \A p \in fired[Len(fired)].at : ~DisconnectCompleted(p)

\* the RPC names the method decorator gives to the members of any class
MethodNames ==
  UNION {{_get_methods(i)[k].name : k \in DOMAIN _get_methods(i)} : i \in AllInstances}

\* C19: after any sequence of RegisterInterface calls every dispatch-table
\* entry "N.m", N a name of the registry, is bound to method m of the
\* instance the registry holds under N; no entry is bound to an instance
\* that was replaced.
C19_EntriesFollowRegistry ==
  \A key \in DOMAIN method_map, n \in DOMAIN interfaces, m \in MethodNames :
    key = interfaces[n].name \o "." \o m =>
      /\ method_map[key].inst = interfaces[n].inst
      /\ \E k \in DOMAIN _get_methods(interfaces[n].inst) :
           /\ _get_methods(interfaces[n].inst)[k].name = m
           /\ _get_methods(interfaces[n].inst)[k].member = method_map[key].member

=============================================================================
